---- MODULE Spec2Model ----
(***************************************************************************)
(* Verification model of deep_space's key library: private_key.rs          *)
(* (PrivateKey construction, HD derivation, text parsing, signing entry    *)
(* points), utils.rs (hex codec, ArrayString) and public_key.rs.           *)
(*                                                                         *)
(* Scaling.  A byte is a real byte (0..255).  A scalar is KeyLen bytes     *)
(* instead of 32 and a child index is IndexBits bits wide instead of 32,   *)
(* so that TLC can enumerate them; CurveN keeps the shape of the real      *)
(* curve order (just below ByteBase^KeyLen, further below it than one      *)
(* byte's worth).  Text is a sequence of one-character strings.            *)
(*                                                                         *)
(* The hash functions (SHA-256, HMAC-SHA512) are uninterpreted: each is a  *)
(* table filled on first use with an arbitrary output and read back on     *)
(* every later use, so they are functions whose values nothing is assumed  *)
(* about.                                                                  *)
(***************************************************************************)
EXTENDS Integers, Sequences, FiniteSets, TLC

VARIABLES
    pc,          \* "idle": no call in progress; "loop": inside the for loop of from_hd_wallet_path
    fn,          \* name of the last (or the running) public operation
    arg,         \* its arguments
    ret,         \* its result: [tag, err, val]
    shaTable,    \* SHA-256, as far as it has been evaluated
    hmacTable,   \* HMAC-SHA512, as far as it has been evaluated
    firstRet,    \* from_secret: the result of the first call on each secret
    key,         \* the PrivateKey the caller holds (its 0 field), NoKey before one is built
    build,       \* "debug" (overflow checks on) or "release" (wrapping arithmetic);
                 \* "any" until an overflow makes the difference observable
    path,        \* from_hd_wallet_path: the path argument
    iterator,    \* from_hd_wallet_path: the path segments not yet consumed
    secret_key,  \* from_hd_wallet_path: local secret_key
    chain_code,  \* from_hd_wallet_path: local chain_code
    steps,       \* from_hd_wallet_path: the (index, hardened) pairs handed to get_child_key so far
    public_key,  \* the PublicKey the caller holds: [bytes, prefix], NoPubKey before one is built
    signed       \* get_signed_tx / sign_std_msg: the result of the first call on each input

vars == <<pc, fn, arg, ret, shaTable, hmacTable, firstRet, key, build, path, iterator,
          secret_key, chain_code, steps, public_key, signed>>

----------------------------------------------------------------------------
(* Bounds and constants *)

\* Radix of a byte (u8).
ByteBase == 256

\* Length of a scalar / chain code / digest in bytes (32 in the source).
KeyLen == 2

\* Width of a child index in bits (u32 in the source).
IndexBits == 8

\* Number of values of a KeyLen-byte big-endian integer.
ScalarSpace == ByteBase ^ KeyLen

\* The curve order: below ScalarSpace by more than one byte's worth, as the
\* secp256k1 order is below 2^256 (by about 2^128).
CurveN == ScalarSpace - 325

\* Results of the modelled operations.
Ok(v) == [tag |-> "Ok", err |-> "", val |-> v]

Err(e, v) == [tag |-> "Err", err |-> e, val |-> v]

Panic(why) == [tag |-> "Panic", err |-> why, val |-> <<>>]

NoRet == [tag |-> "None", err |-> "", val |-> <<>>]

\* No PrivateKey yet.
NoKey == <<>>

\* No PublicKey yet.
NoPubKey == [bytes |-> <<>>, prefix |-> <<>>]

----------------------------------------------------------------------------
(* Big-endian integers *)

RECURSIVE FromBytesBE(_)
\* BigUint::from_bytes_be / the scalar a byte array stands for.
FromBytesBE(bs) ==
    IF bs = <<>> THEN 0
    ELSE FromBytesBE(SubSeq(bs, 1, Len(bs) - 1)) * ByteBase + bs[Len(bs)]

RECURSIVE ToBytesBE(_)
\* BigUint::to_bytes_be: the shortest big-endian representation; zero is <<0>>.
ToBytesBE(n) ==
    IF n < ByteBase THEN <<n>>
    ELSE Append(ToBytesBE(n \div ByteBase), n % ByteBase)

RECURSIVE ToFixedBE(_, _)
\* A len-byte big-endian array holding n (n < ByteBase^len).
ToFixedBE(n, len) ==
    IF len = 0 THEN <<>>
    ELSE Append(ToFixedBE(n \div ByteBase, len - 1), n % ByteBase)

----------------------------------------------------------------------------
(* PrivateKey::from_secret *)

\* Secrets the model calls from_secret on: empty, one byte, several bytes.
SecretSamples == { <<>>, <<0>>, <<109, 121, 83>> }

\* Digest values SHA-256 may take in the model: the edges of the scalar range
\* and of the byte lengths, and the neighbours of the curve order.
DigestValues ==
    { 0, 1, ByteBase - 2, ByteBase - 1, ByteBase, ByteBase + 1,
      (ByteBase ^ (KeyLen - 1)) - 2, (ByteBase ^ (KeyLen - 1)) - 1,
      ByteBase ^ (KeyLen - 1), 53438 % ScalarSpace,
      CurveN - 3, CurveN - 2, CurveN - 1, CurveN, CurveN + 1,
      CurveN + ByteBase - 2, ScalarSpace - 1 }

\* The outputs Sha256::digest(secret) may have: the tabulated one if the secret
\* was hashed before, any digest otherwise.
Sha256Digest(secret) ==
    IF secret \in DOMAIN shaTable THEN { shaTable[secret] }
    ELSE { ToFixedBE(d, KeyLen) : d \in DigestValues }

RECURSIVE PushZeros(_)
\* while i_bytes.len() < 32 { i_bytes.push(0); }
PushZeros(i_bytes) ==
    IF Len(i_bytes) < KeyLen THEN PushZeros(Append(i_bytes, 0)) ELSE i_bytes

\* from_secret after the hash: reduce mod (n - 1), add one, pad, copy.
from_secret(sec_hash) ==
    LET i0 == FromBytesBE(sec_hash)
        n == CurveN - 1
        i == (i0 % n) + 1
        i_bytes == PushZeros(ToBytesBE(i))
    IN  IF Len(i_bytes) = KeyLen THEN Ok(i_bytes)
        ELSE Panic("copy_from_slice")

\* One call of PrivateKey::from_secret(secret).
FromSecret ==
    /\ pc = "idle"
    /\ \E secret \in SecretSamples :
       \E sec_hash \in Sha256Digest(secret) :
          /\ shaTable' = IF secret \in DOMAIN shaTable THEN shaTable
                         ELSE [s \in DOMAIN shaTable \cup {secret} |->
                                 IF s = secret THEN sec_hash ELSE shaTable[s]]
          /\ fn' = "from_secret"
          /\ arg' = <<secret>>
          /\ ret' = from_secret(sec_hash)
          /\ key' = IF from_secret(sec_hash).tag = "Ok" THEN from_secret(sec_hash).val
                     ELSE key
          /\ firstRet' = IF secret \in DOMAIN firstRet THEN firstRet
                         ELSE [s \in DOMAIN firstRet \cup {secret} |->
                                 IF s = secret THEN from_secret(sec_hash)
                                 ELSE firstRet[s]]
    /\ UNCHANGED <<public_key, signed, pc, hmacTable, build, path, iterator, secret_key, chain_code, steps>>

----------------------------------------------------------------------------
(* Text: a sequence of one-character strings *)

\* The UTF-8 encoding of each character the model uses (str::as_bytes): the
\* ASCII digits and letters, some punctuation, and "U+00E9", the one two-byte
\* character.
Utf8 ==
    ( "0" :> <<48>> @@ "1" :> <<49>> @@ "2" :> <<50>> @@ "3" :> <<51>> @@
      "4" :> <<52>> @@ "5" :> <<53>> @@ "6" :> <<54>> @@ "7" :> <<55>> @@
      "8" :> <<56>> @@ "9" :> <<57>> @@ "a" :> <<97>> @@ "b" :> <<98>> @@
      "c" :> <<99>> @@ "d" :> <<100>> @@ "e" :> <<101>> @@ "f" :> <<102>> @@
      "g" :> <<103>> @@ "h" :> <<104>> @@ "i" :> <<105>> @@ "j" :> <<106>> @@
      "k" :> <<107>> @@ "l" :> <<108>> @@ "m" :> <<109>> @@ "n" :> <<110>> @@
      "o" :> <<111>> @@ "p" :> <<112>> @@ "q" :> <<113>> @@ "r" :> <<114>> @@
      "s" :> <<115>> @@ "t" :> <<116>> @@ "u" :> <<117>> @@ "v" :> <<118>> @@
      "w" :> <<119>> @@ "x" :> <<120>> @@ "y" :> <<121>> @@ "z" :> <<122>> @@
      "A" :> <<65>> @@ "B" :> <<66>> @@ "C" :> <<67>> @@ "D" :> <<68>> @@
      "E" :> <<69>> @@ "F" :> <<70>> @@ "G" :> <<71>> @@ "H" :> <<72>> @@
      "I" :> <<73>> @@ "J" :> <<74>> @@ "K" :> <<75>> @@ "L" :> <<76>> @@
      "M" :> <<77>> @@ "N" :> <<78>> @@ "O" :> <<79>> @@ "P" :> <<80>> @@
      "Q" :> <<81>> @@ "R" :> <<82>> @@ "S" :> <<83>> @@ "T" :> <<84>> @@
      "U" :> <<85>> @@ "V" :> <<86>> @@ "W" :> <<87>> @@ "X" :> <<88>> @@
      "Y" :> <<89>> @@ "Z" :> <<90>> @@ "/" :> <<47>> @@ "'" :> <<39>> @@
      "\\" :> <<92>> @@ "+" :> <<43>> @@ "-" :> <<45>> @@ " " :> <<32>> @@
      "=" :> <<61>> @@ "_" :> <<95>> @@ "U+00E9" :> <<195, 169>> )

RECURSIVE AsBytes(_)
\* str::as_bytes
AsBytes(text) ==
    IF text = <<>> THEN <<>>
    ELSE IF Len(text) = 1 THEN Utf8[text[1]]
    ELSE AsBytes(SubSeq(text, 1, Len(text) \div 2))
         \o AsBytes(SubSeq(text, Len(text) \div 2 + 1, Len(text)))

\* str::contains(char)
Contains(text, c) == \E k \in 1..Len(text) : text[k] = c

\* str::starts_with(char)
StartsWith(text, c) == Len(text) > 0 /\ text[1] = c

RECURSIVE Split(_, _)
\* str::split(char), collected: "a/" gives "a" and "", "" gives "".
Split(text, sep) ==
    IF ~Contains(text, sep) THEN <<text>>
    ELSE LET k == CHOOSE j \in 1..Len(text) :
                    text[j] = sep /\ \A h \in 1..(j - 1) : text[h] # sep
         IN  <<SubSeq(text, 1, k - 1)>> \o Split(SubSeq(text, k + 1, Len(text)), sep)

RECURSIVE TrimStart(_, _)
TrimStart(text, c) ==
    IF StartsWith(text, c) THEN TrimStart(Tail(text), c) ELSE text

RECURSIVE TrimEnd(_, _)
TrimEnd(text, c) ==
    IF Len(text) > 0 /\ text[Len(text)] = c
    THEN TrimEnd(SubSeq(text, 1, Len(text) - 1), c) ELSE text

\* str::trim_matches(char): every leading and every trailing c is removed.
TrimMatches(text, c) == TrimEnd(TrimStart(text, c), c)

\* Value of a decimal digit.
DecVal ==
    ( "0" :> 0 @@ "1" :> 1 @@ "2" :> 2 @@ "3" :> 3 @@ "4" :> 4 @@
      "5" :> 5 @@ "6" :> 6 @@ "7" :> 7 @@ "8" :> 8 @@ "9" :> 9 )

\* Number of values of a child index (2^32 in the source).
IndexSpace == 2 ^ IndexBits

RECURSIVE ParseDigits(_, _)
\* The digits of a decimal number folded into acc; -1 on a character that is no
\* digit or on a value that does not fit the index type.
ParseDigits(digits, acc) ==
    IF digits = <<>> THEN acc
    ELSE IF Head(digits) \notin DOMAIN DecVal THEN -1
    ELSE LET next == acc * 10 + DecVal[Head(digits)]
         IN  IF next >= IndexSpace THEN -1 ELSE ParseDigits(Tail(digits), next)

\* str::parse::<u32>: an optional leading "+", then at least one digit; -1 is Err.
ParseIndex(val) ==
    IF val = <<>> THEN -1
    ELSE IF Len(val) = 1 /\ val[1] \in {"+", "-"} THEN -1
    ELSE IF val[1] = "+" THEN ParseDigits(Tail(val), 0)
    ELSE ParseDigits(val, 0)

----------------------------------------------------------------------------
(* Curve and mnemonic collaborators *)

\* SecretKey::from_slice: a scalar is valid when it has KeyLen bytes and
\* 0 < value < curve order.
SecretKeyFromSlice(bytes) ==
    /\ Len(bytes) = KeyLen
    /\ FromBytesBE(bytes) > 0
    /\ FromBytesBE(bytes) < CurveN

\* PublicKeyEC::from_secret_key(..).serialize(): the compressed point of a valid
\* scalar, KeyLen + 1 bytes: a parity byte, then the x coordinate.  The curve
\* multiplication is a fixed injection of the scalar.
CompressedPoint(bytes) ==
    LET k == FromBytesBE(bytes)
    IN  <<2 + (k % 2)>> \o ToFixedBE((k * 7 + 3) % ScalarSpace, KeyLen)

\* Phrases Mnemonic::from_str decodes.
DecodablePhrases == { <<"a", "d", " ", "b", "e">> }

\* Mnemonic::from_str(phrase) succeeds.
MnemonicDecodes(phrase) == phrase \in DecodablePhrases

\* Mnemonic::to_seed(passphrase): seed bytes, different for different
\* (phrase, passphrase).
MnemonicSeed(phrase, passphrase) ==
    AsBytes(phrase) \o <<0>> \o AsBytes(passphrase)

----------------------------------------------------------------------------
(* HD derivation: master_key_from_seed, get_child_key *)

\* b"Bitcoin seed"
BitcoinSeed == <<66, 105, 116, 99, 111, 105, 110, 32, 115, 101, 101, 100>>

\* Values the first half of an HMAC-SHA512 output may take in the model.
ILValues == { 0, 1, CurveN - 1, CurveN }

\* Values the second half (the chain code) may take in the model.
IRValues == { 7, ScalarSpace - 1 }

\* The outputs HmacSha512(key, data) may have: the tabulated one if this input
\* was hashed before, any output otherwise.  An output is I_L followed by I_R.
HmacSha512(hkey, data) ==
    IF <<hkey, data>> \in DOMAIN hmacTable THEN { hmacTable[<<hkey, data>>] }
    ELSE { ToFixedBE(l, KeyLen) \o ToFixedBE(r, KeyLen) :
             l \in ILValues, r \in IRValues }

\* The table after HmacSha512(key, data) returned hash.
HmacRecord(hkey, data, hash) ==
    IF <<hkey, data>> \in DOMAIN hmacTable THEN hmacTable
    ELSE [q \in DOMAIN hmacTable \cup {<<hkey, data>>} |->
            IF q = <<hkey, data>> THEN hash ELSE hmacTable[q]]

\* master_key_from_seed after the hash: split, then the key check's unwrap.
master_key_from_seed(hash) ==
    LET master_secret_key == SubSeq(hash, 1, KeyLen)
        master_chain_code == SubSeq(hash, KeyLen + 1, 2 * KeyLen)
    IN  IF SecretKeyFromSlice(master_secret_key)
        THEN Ok(<<master_secret_key, master_chain_code>>)
        ELSE Panic("master_key_from_seed: SecretKey::from_slice unwrap")

\* 2u32.pow(31)
HardenedOffset == 2 ^ (IndexBits - 1)

\* Bytes of i.to_be_bytes().
IndexLen == (IndexBits + 7) \div 8

\* let i = if hardened { 2u32.pow(31) + i } else { i }: the effective index, or
\* -1 when the addition overflows in a build that checks overflow.
EffectiveIndex(i, hardened, bld) ==
    IF ~hardened THEN i
    ELSE IF HardenedOffset + i < IndexSpace THEN HardenedOffset + i
    ELSE IF bld = "release" THEN (HardenedOffset + i) % IndexSpace
    ELSE -1

\* The message get_child_key feeds to the keyed hash.
ChildData(k_parent, i, hardened) ==
    IF hardened THEN <<0>> \o k_parent \o ToFixedBE(i, IndexLen)
    ELSE CompressedPoint(k_parent) \o ToFixedBE(i, IndexLen)

\* The digits bytes_to_hex_str and display_secret write.
HexDigit ==
    <<"0", "1", "2", "3", "4", "5", "6", "7", "8", "9", "a", "b", "c", "d", "e", "f">>

\* Value of a hexadecimal digit, either case.
HexVal ==
    DecVal @@
    ( "a" :> 10 @@ "b" :> 11 @@ "c" :> 12 @@ "d" :> 13 @@ "e" :> 14 @@ "f" :> 15 @@
      "A" :> 10 @@ "B" :> 11 @@ "C" :> 12 @@ "D" :> 13 @@ "E" :> 14 @@ "F" :> 15 )

RECURSIVE bytes_to_hex_unpadded(_)
\* Mutant of bytes_to_hex_str: each byte formatted with {:x}, without the zero
\* fill to two digits.
bytes_to_hex_unpadded(bytes) ==
    IF bytes = <<>> THEN <<>>
    ELSE (IF Head(bytes) < 16 THEN <<HexDigit[Head(bytes) + 1]>>
          ELSE <<HexDigit[(Head(bytes) \div 16) + 1], HexDigit[(Head(bytes) % 16) + 1]>>)
         \o bytes_to_hex_unpadded(Tail(bytes))

RECURSIVE bytes_to_hex_str(_)
\* Each byte formatted with {:0>2x?}: two lower-case digits, zero-filled.
bytes_to_hex_str(bytes) ==
    IF bytes = <<>> THEN <<>>
    ELSE <<HexDigit[(Head(bytes) \div 16) + 1], HexDigit[(Head(bytes) % 16) + 1]>>
         \o bytes_to_hex_str(Tail(bytes))

\* u8::from_str_radix(chunk, 16) on a chunk of one or two bytes that is valid
\* UTF-8: an optional leading "+" when a digit follows, then hex digits.
\* -1 is Err.
ParseHexByte(chunk) ==
    LET digits == IF Len(chunk) = 2 /\ chunk[1] = "+" THEN Tail(chunk) ELSE chunk
    IN  IF Len(chunk) = 1 /\ chunk[1] \in {"+", "-"} THEN -1
        ELSE IF \E k \in 1..Len(digits) : digits[k] \notin DOMAIN HexVal THEN -1
        ELSE IF Len(digits) = 1 THEN HexVal[digits[1]]
        ELSE HexVal[digits[1]] * 16 + HexVal[digits[2]]

RECURSIVE HexChunks(_)
\* s.as_bytes().chunks(2).map(from_utf8 .. from_str_radix).collect(): walks the
\* text two bytes at a time; the first failing chunk decides the error.  A
\* two-byte character fills a chunk when it starts on an even byte offset
\* (valid UTF-8, then no hex digit) and is cut in two otherwise (invalid UTF-8).
HexChunks(s) ==
    IF s = <<>> THEN Ok(<<>>)
    ELSE IF Len(Utf8[s[1]]) = 2 THEN Err("ParseError", <<>>)
    ELSE IF Len(s) = 1 THEN
        IF ParseHexByte(s) = -1 THEN Err("ParseError", <<>>)
        ELSE Ok(<<ParseHexByte(s)>>)
    ELSE IF Len(Utf8[s[2]]) = 2 THEN Err("DecodeError", <<>>)
    ELSE IF ParseHexByte(SubSeq(s, 1, 2)) = -1 THEN Err("ParseError", <<>>)
    ELSE LET rest == HexChunks(SubSeq(s, 3, Len(s)))
         IN  IF rest.tag = "Ok"
             THEN Ok(<<ParseHexByte(SubSeq(s, 1, 2))>> \o rest.val)
             ELSE rest

\* hex_str_to_bytes: one leading "0x" is stripped, then the chunks are parsed.
hex_str_to_bytes(s) ==
    IF Len(s) >= 2 /\ s[1] = "0" /\ s[2] = "x"
    THEN HexChunks(SubSeq(s, 3, Len(s)))
    ELSE HexChunks(s)

\* get_child_key after the hash (l_param = hasher.finalize()): the unwraps on
\* SecretKey::from_slice(I_L), Scalar::from_be_bytes(k_parent) and add_tweak,
\* then the child scalar read back through its hex display.
get_child_key(k_parent, c_parent, i, hardened, l_param) ==
    LET i_l == SubSeq(l_param, 1, KeyLen)
        sum == (FromBytesBE(i_l) + FromBytesBE(k_parent)) % CurveN
        shown == hex_str_to_bytes(bytes_to_hex_str(ToFixedBE(sum, KeyLen)))
    IN  IF ~hardened /\ ~SecretKeyFromSlice(k_parent)
        THEN Panic("get_child_key: SecretKey::from_slice(k_parent) unwrap")
        ELSE IF ~SecretKeyFromSlice(i_l)
        THEN Panic("get_child_key: SecretKey::from_slice(I_L) unwrap")
        ELSE IF FromBytesBE(k_parent) >= CurveN
        THEN Panic("get_child_key: Scalar::from_be_bytes unwrap")
        ELSE IF sum = 0
        THEN Panic("get_child_key: add_tweak unwrap")
        ELSE IF shown.tag # "Ok" \/ Len(shown.val) # KeyLen
        THEN Panic("get_child_key: hex_str_to_bytes unwrap")
        ELSE Ok(<<shown.val, SubSeq(l_param, KeyLen + 1, 2 * KeyLen)>>)

----------------------------------------------------------------------------
(* PrivateKey::from_hd_wallet_path, PrivateKey::from_phrase *)

\* Longest path the model builds from PathSegments, in steps.
MaxSteps == 2

\* "m/44'/118'/0'/0/0"
DefaultPath ==
    <<"m", "/", "4", "4", "'", "/", "1", "1", "8", "'", "/", "0", "'", "/", "0", "/", "0">>

\* First segments of the paths the model calls with: the root marker, text that
\* only starts with it, text that does not, a reverse slash.
PathRoots ==
    { <<"m">>, <<"m", "4">>, <<>>, <<"M">>, <<"m", "\\">> }

\* Later segments: bare and hardened indices, the largest index and the first
\* that does not fit, and the malformed shapes.
PathSegments ==
    { <<"0">>, <<"1", "'">>, <<"1", "2", "8", "'">>, <<"2", "5", "6">>,
      <<"'", "1">>, <<"1", "'", "'">>, <<"1", "'", "1">>,
      <<"+", "1">>, <<"-", "1">>, <<>>, <<"x">>, <<"1", "\\">> }

RECURSIVE PathsOfLen(_)
\* The paths of exactly n steps.
PathsOfLen(n) ==
    IF n = 0 THEN PathRoots
    ELSE { p \o <<"/">> \o seg : p \in PathsOfLen(n - 1), seg \in PathSegments }

\* Every path the model calls from_hd_wallet_path with.
PathSamples == UNION { PathsOfLen(n) : n \in 0..MaxSteps } \cup { DefaultPath }

\* Phrases: empty, decodable, undecodable.
PhraseSamples == { <<>>, <<"b", "a", "d", " ", "p">> } \cup DecodablePhrases

\* Passphrases.
PassphraseSamples == { <<>>, <<"p">> }

\* The builds the next loop iteration may be running in: the one already
\* observed, or either one when this iteration is the first whose addition
\* 2u32.pow(31) + i overflows; "any" while none has.
Builds(bld, iter) ==
    LET val0 == Head(iter)
        parsed == ParseIndex(TrimMatches(val0, "'"))
    IN  IF bld # "any" THEN {bld}
        ELSE IF Contains(val0, "'") /\ parsed # -1 /\ HardenedOffset + parsed >= IndexSpace
        THEN {"debug", "release"}
        ELSE {"any"}

\* Mutant of Hardened: the marker is looked for at the start of the segment.
HardenedAtStart(val) == StartsWith(val, "'")

\* if val.contains('\'') { hardened = true; .. }
Hardened(val) == Contains(val, "'")

\* The body of from_hd_wallet_path up to the for loop, entered as operation
\* name with arguments args: the path check, the mnemonic, the master key.
HdEnter(name, args, path_, phrase, passphrase) ==
    /\ fn' = name
    /\ arg' = args
    /\ path' = path_
    /\ IF ~StartsWith(path_, "m") \/ Contains(path_, "\\")
       THEN /\ ret' = Err("InvalidPathSpec", path_)
            /\ UNCHANGED <<public_key, signed, pc, hmacTable, iterator, secret_key, chain_code, steps>>
       ELSE IF ~MnemonicDecodes(phrase)
       THEN /\ ret' = Err("Bip39Error", <<>>)
            /\ UNCHANGED <<public_key, signed, pc, hmacTable, iterator, secret_key, chain_code, steps>>
       ELSE \E hash \in HmacSha512(BitcoinSeed, MnemonicSeed(phrase, passphrase)) :
            LET master == master_key_from_seed(hash)
            IN  /\ hmacTable' = HmacRecord(BitcoinSeed, MnemonicSeed(phrase, passphrase), hash)
                /\ IF master.tag = "Panic"
                   THEN /\ ret' = master
                        /\ UNCHANGED <<public_key, signed, pc, iterator, secret_key, chain_code, steps>>
                   ELSE /\ ret' = NoRet
                        /\ pc' = "loop"
                        /\ iterator' = Tail(Split(path_, "/"))
                        /\ secret_key' = master.val[1]
                        /\ chain_code' = master.val[2]
                        /\ steps' = <<>>
    /\ UNCHANGED <<public_key, signed, shaTable, firstRet, key, build>>

\* A call of PrivateKey::from_hd_wallet_path(path, phrase, passphrase).
FromHdWalletPath ==
    /\ pc = "idle"
    /\ fn = "none"
    /\ \E p \in PathSamples, phrase \in PhraseSamples, passphrase \in PassphraseSamples :
          HdEnter("from_hd_wallet_path", <<p, phrase, passphrase>>, p, phrase, passphrase)

\* The body of from_phrase, entered as operation name with arguments args: the
\* empty phrase is refused, any other goes to from_hd_wallet_path on
\* m/44'/118'/0'/0/0.
from_phrase(name, args, phrase, passphrase) ==
    IF phrase = <<>>
    THEN /\ fn' = name
         /\ arg' = args
         /\ ret' = Err("Bip39Error", <<>>)
         /\ UNCHANGED <<public_key, signed, pc, shaTable, hmacTable, firstRet, key, build, path, iterator,
                        secret_key, chain_code, steps>>
    ELSE HdEnter(name, args, DefaultPath, phrase, passphrase)

\* A call of PrivateKey::from_phrase(phrase, passphrase).
FromPhrase ==
    /\ pc = "idle"
    /\ fn = "none"
    /\ \E phrase \in PhraseSamples, passphrase \in PassphraseSamples :
          from_phrase("from_phrase", <<phrase, passphrase>>, phrase, passphrase)

\* One iteration of `for mut val in iterator`.
HdLoopStep ==
    /\ pc = "loop"
    /\ iterator # <<>>
    /\ \E bld \in Builds(build, iterator) :
       LET val0 == Head(iterator)
           hardened == Hardened(val0)
           val == IF hardened THEN TrimMatches(val0, "'") ELSE val0
           parsed_int == ParseIndex(val)
           i == EffectiveIndex(parsed_int, hardened, bld)
       IN  /\ build' = bld
           /\ IF parsed_int = -1
              THEN /\ ret' = Err("InvalidPathSpec", path)
                   /\ pc' = "idle"
                   /\ UNCHANGED <<public_key, signed, hmacTable, iterator, secret_key, chain_code, steps>>
              ELSE IF i = -1
              THEN /\ ret' = Panic("get_child_key: attempt to add with overflow")
                   /\ pc' = "idle"
                   /\ UNCHANGED <<public_key, signed, hmacTable, iterator, secret_key, chain_code, steps>>
              ELSE \E l_param \in HmacSha512(chain_code, ChildData(secret_key, i, hardened)) :
                   LET child == get_child_key(secret_key, chain_code, parsed_int,
                                              hardened, l_param)
                   IN  /\ hmacTable' = HmacRecord(chain_code,
                                                  ChildData(secret_key, i, hardened), l_param)
                       /\ IF child.tag = "Panic"
                          THEN /\ ret' = child
                               /\ pc' = "idle"
                               /\ UNCHANGED <<public_key, signed, iterator, secret_key, chain_code, steps>>
                          ELSE /\ secret_key' = child.val[1]
                               /\ chain_code' = child.val[2]
                               /\ iterator' = Tail(iterator)
                               /\ steps' = Append(steps, <<parsed_int, hardened>>)
                               /\ UNCHANGED <<public_key, signed, pc, ret>>
    /\ UNCHANGED <<public_key, signed, fn, arg, shaTable, firstRet, key, path>>

\* The loop is over: Ok(PrivateKey(secret_key)).
HdReturn ==
    /\ pc = "loop"
    /\ iterator = <<>>
    /\ ret' = Ok(secret_key)
    /\ key' = secret_key
    /\ pc' = "idle"
    /\ UNCHANGED <<public_key, signed, fn, arg, shaTable, hmacTable, firstRet, build, path, iterator,
                   secret_key, chain_code, steps>>

----------------------------------------------------------------------------
(* PrivateKey from text and from an array; hex codec entry points *)

\* char::is_ascii_hexdigit
IsAsciiHexdigit(c) == c \in DOMAIN HexVal

\* contains_non_hex_chars
contains_non_hex_chars(input) ==
    \E k \in 1..Len(input) : ~IsAsciiHexdigit(input[k])

\* Mutant of from_str: a hex decode of the wrong length falls through to the
\* phrase fallback instead of being a length error.
from_str_fallback_on_length(s) ==
    LET decoded == hex_str_to_bytes(s)
    IN  IF decoded.tag = "Ok" /\ Len(decoded.val) = KeyLen
        THEN Ok(SubSeq(decoded.val, 1, KeyLen))
        ELSE IF contains_non_hex_chars(s) \/ decoded.tag = "Ok"
        THEN [tag |-> "Phrase", err |-> "", val |-> s]
        ELSE Err("HexDecodeError", <<decoded.err>>)

\* <PrivateKey as FromStr>::from_str up to the phrase fallback: the key bytes,
\* an error, or Phrase when PrivateKey::from_phrase(s, "") decides.
from_str(s) ==
    LET decoded == hex_str_to_bytes(s)
    IN  IF decoded.tag = "Ok"
        THEN IF Len(decoded.val) = KeyLen
             THEN Ok(SubSeq(decoded.val, 1, KeyLen))
             ELSE Err("HexDecodeErrorWrongLength", <<>>)
        ELSE IF contains_non_hex_chars(s)
        THEN [tag |-> "Phrase", err |-> "", val |-> s]
        ELSE Err("HexDecodeError", <<decoded.err>>)

\* PrivateKey::from_array
from_array(array) == array

\* Bytes the model builds keys and byte strings from: both nibbles take small,
\* letter and top digits.
ByteSamples == { 0, 1, 10, 171, 255 }

\* The KeyLen-byte arrays the model builds keys from: every array over
\* ByteSamples (zero and the largest value among them) and the neighbours of
\* the curve order.
KeyArrays ==
    [1..KeyLen -> ByteSamples]
    \cup { ToFixedBE(n, KeyLen) : n \in { CurveN - 1, CurveN, CurveN + 1 } }

\* Byte strings the hex round trip is run on: empty, every single byte, the
\* key arrays, a longer one.
ByteStringSamples ==
    { <<>> } \cup { <<b>> : b \in 0..(ByteBase - 1) } \cup KeyArrays
    \cup { <<1, 35, 69, 103, 137>> }

\* Longest text of TextAlphabet the model parses.
MaxText == 3

\* Characters of the short texts: digits of either case, the prefix letter, a
\* letter that is no digit, signs, a blank, a two-byte character.
TextAlphabet == { "0", "a", "F", "x", "g", "+", "-", " ", "U+00E9" }

RECURSIVE TextsOfLen(_)
TextsOfLen(n) ==
    IF n = 0 THEN { <<>> }
    ELSE { Append(t, c) : t \in TextsOfLen(n - 1), c \in TextAlphabet }

\* Every text over TextAlphabet of at most MaxText characters.
ShortTexts == UNION { TextsOfLen(n) : n \in 0..MaxText }

\* Texts handed to the parsers: the short texts, the hex form of every sample
\* byte string bare and with the 0x prefix, and the phrases.
TextSamples ==
    ShortTexts
    \cup { bytes_to_hex_str(b) : b \in ByteStringSamples }
    \cup { <<"0", "x">> \o bytes_to_hex_str(b) : b \in ByteStringSamples }
    \cup PhraseSamples

\* A call of PrivateKey::from_array(array).
FromArray ==
    /\ pc = "idle"
    /\ fn = "none"
    /\ \E array \in KeyArrays :
          /\ fn' = "from_array"
          /\ arg' = <<array>>
          /\ ret' = Ok(from_array(array))
          /\ key' = from_array(array)
    /\ UNCHANGED <<public_key, signed, pc, shaTable, hmacTable, firstRet, build, path, iterator,
                   secret_key, chain_code, steps>>

\* A call of str::parse::<PrivateKey>(s).
FromStr ==
    /\ pc = "idle"
    /\ fn = "none"
    /\ \E s \in TextSamples :
          IF from_str(s).tag = "Phrase"
          THEN from_phrase("from_str", <<s>>, s, <<>>)
          ELSE /\ fn' = "from_str"
               /\ arg' = <<s>>
               /\ ret' = from_str(s)
               /\ key' = IF from_str(s).tag = "Ok" THEN from_str(s).val ELSE key
               /\ UNCHANGED <<public_key, signed, pc, shaTable, hmacTable, firstRet, build, path, iterator,
                              secret_key, chain_code, steps>>

\* A call of hex_str_to_bytes(s).
HexStrToBytes ==
    /\ pc = "idle"
    /\ fn = "none"
    /\ \E s \in TextSamples :
          /\ fn' = "hex_str_to_bytes"
          /\ arg' = <<s>>
          /\ ret' = hex_str_to_bytes(s)
    /\ UNCHANGED <<public_key, signed, pc, shaTable, hmacTable, firstRet, key, build, path, iterator,
                   secret_key, chain_code, steps>>

----------------------------------------------------------------------------
(* Public key, address and signing entry points of PrivateKey *)

\* ArrayString::MAX_LEN
MAX_LEN == 32

\* PublicKey::DEFAULT_PREFIX
DEFAULT_PREFIX == <<"c", "o", "s", "m", "o", "s", "p", "u", "b">>

\* ArrayString::new: refused when the input is longer than MAX_LEN bytes,
\* else the characters in order, then None.
ArrayStringNew(input) ==
    IF Len(AsBytes(input)) > MAX_LEN THEN Err("TooLong", <<>>)
    ELSE Ok([chars |-> [k \in 1..MAX_LEN |->
                          IF k <= Len(input) THEN input[k] ELSE "None"],
             used |-> Len(input)])

\* PublicKey::from_bytes
PublicKeyFromBytes(bytes, prefix) ==
    IF ArrayStringNew(prefix).tag = "Err" THEN Err("PrefixTooLong", <<>>)
    ELSE Ok([bytes |-> bytes, prefix |-> ArrayStringNew(prefix).val])

\* Mutant of to_public_key: the scalar check is unwrapped instead of returned.
to_public_key_unwrap(k, prefix) ==
    IF ~SecretKeyFromSlice(k) THEN Panic("to_public_key: SecretKey::from_slice unwrap")
    ELSE IF PublicKeyFromBytes(CompressedPoint(k), prefix).tag = "Err"
    THEN Err("PublicKeyError", <<>>)
    ELSE PublicKeyFromBytes(CompressedPoint(k), prefix)

\* PrivateKey::to_public_key
to_public_key(k, prefix) ==
    IF ~SecretKeyFromSlice(k) THEN Err("CurveError", <<>>)
    ELSE IF PublicKeyFromBytes(CompressedPoint(k), prefix).tag = "Err"
    THEN Err("PublicKeyError", <<>>)
    ELSE PublicKeyFromBytes(CompressedPoint(k), prefix)

\* Length of an address in bytes (20 in the source).
AddressLen == KeyLen

\* RIPEMD160(SHA256(point)) cut to the address length: a fixed function of the
\* point.
AddressHash(point) ==
    ToFixedBE((FromBytesBE(point) * 5 + 17) % (ByteBase ^ AddressLen), AddressLen)

\* Address::from_bytes: the address bytes with their label.
AddressFromBytes(bytes, prefix) ==
    IF ArrayStringNew(prefix).tag = "Err" THEN Err("PrefixTooLong", <<>>)
    ELSE Ok([bytes |-> bytes, prefix |-> ArrayStringNew(prefix).val])

\* PublicKey::to_address_with_prefix
to_address_with_prefix(pubkey, prefix) ==
    AddressFromBytes(AddressHash(pubkey.bytes), prefix)

\* PrivateKey::to_address
to_address(k, prefix) ==
    LET pubkey == to_public_key(k, <<>>)
    IN  IF pubkey.tag # "Ok" THEN pubkey
        ELSE IF to_address_with_prefix(pubkey.val, prefix).tag = "Err"
        THEN Err("AddressError", <<>>)
        ELSE to_address_with_prefix(pubkey.val, prefix)

\* prost::Message::encode: the canonical serialization, an injection.
ProtoEncode(kind, message) == <<kind, message>>

\* Sha256::digest of a signing document, and the compact signature of a digest
\* under a scalar: 2 * KeyLen bytes, each a fixed function of scalar and digest.
SignCompact(k, signdoc_buf) ==
    [n \in 1..(2 * KeyLen) |-> <<"sig", n, k, signdoc_buf>>]

\* Mutant of build_tx: the sequence number signed is the caller's plus the
\* number of inputs signed before, as if the key tracked it.
build_tx_tracking_sequence(k, messages, args, memo) ==
    LET our_pubkey == to_public_key(k, DEFAULT_PREFIX)
        body == [messages |-> messages, memo |-> memo,
                 timeout_height |-> args.timeout_height]
        body_buf == ProtoEncode("TxBody", body)
        pk_any == [type_url |-> "/cosmos.crypto.secp256k1.PubKey",
                   value |-> ProtoEncode("PubKey", our_pubkey.val.bytes)]
        signer_info == [public_key |-> pk_any, mode_info |-> 1,
                        sequence |-> args.sequence + Cardinality(DOMAIN signed)]
        auth_info == [signer_infos |-> <<signer_info>>, fee |-> args.fee]
        auth_buf == ProtoEncode("AuthInfo", auth_info)
        sign_doc == [body_bytes |-> body_buf, auth_info_bytes |-> auth_buf,
                     chain_id |-> args.chain_id,
                     account_number |-> args.account_number]
        signdoc_buf == ProtoEncode("SignDoc", sign_doc)
    IN  IF our_pubkey.tag # "Ok" THEN our_pubkey
        ELSE IF ~SecretKeyFromSlice(k) THEN Err("CurveError", <<>>)
        ELSE Ok([body |-> body, body_buf |-> body_buf, auth_info |-> auth_info,
                 auth_buf |-> auth_buf,
                 signatures |-> <<SignCompact(k, signdoc_buf)>>])

\* PrivateKey::build_tx
build_tx(k, messages, args, memo) ==
    LET our_pubkey == to_public_key(k, DEFAULT_PREFIX)
        body == [messages |-> messages, memo |-> memo,
                 timeout_height |-> args.timeout_height]
        body_buf == ProtoEncode("TxBody", body)
        pk_any == [type_url |-> "/cosmos.crypto.secp256k1.PubKey",
                   value |-> ProtoEncode("PubKey", our_pubkey.val.bytes)]
        signer_info == [public_key |-> pk_any, mode_info |-> 1,
                        sequence |-> args.sequence]
        auth_info == [signer_infos |-> <<signer_info>>, fee |-> args.fee]
        auth_buf == ProtoEncode("AuthInfo", auth_info)
        sign_doc == [body_bytes |-> body_buf, auth_info_bytes |-> auth_buf,
                     chain_id |-> args.chain_id,
                     account_number |-> args.account_number]
        signdoc_buf == ProtoEncode("SignDoc", sign_doc)
    IN  IF our_pubkey.tag # "Ok" THEN our_pubkey
        ELSE IF ~SecretKeyFromSlice(k) THEN Err("CurveError", <<>>)
        ELSE Ok([body |-> body, body_buf |-> body_buf, auth_info |-> auth_info,
                 auth_buf |-> auth_buf,
                 signatures |-> <<SignCompact(k, signdoc_buf)>>])

\* PrivateKey::get_signed_tx
get_signed_tx(k, messages, args, memo) ==
    LET parts == build_tx(k, messages, args, memo)
    IN  IF parts.tag # "Ok" THEN parts
        ELSE Ok([body |-> parts.val.body, auth_info |-> parts.val.auth_info,
                 signatures |-> parts.val.signatures])

\* Mutant of sign_std_msg: the raw transaction is framed without the
\* signature list.
sign_std_msg_unsigned(k, messages, args, memo) ==
    LET parts == build_tx(k, messages, args, memo)
    IN  IF parts.tag # "Ok" THEN parts
        ELSE Ok(ProtoEncode("TxRaw",
                [body_bytes |-> parts.val.body_buf,
                 auth_info_bytes |-> parts.val.auth_buf,
                 signatures |-> <<>>]))

\* PrivateKey::sign_std_msg
sign_std_msg(k, messages, args, memo) ==
    LET parts == build_tx(k, messages, args, memo)
    IN  IF parts.tag # "Ok" THEN parts
        ELSE Ok(ProtoEncode("TxRaw",
                [body_bytes |-> parts.val.body_buf,
                 auth_info_bytes |-> parts.val.auth_buf,
                 signatures |-> parts.val.signatures]))

\* Labels the model calls with: empty, the usual ones, one of MAX_LEN
\* characters and one of MAX_LEN + 1.
LabelSamples ==
    { <<>>, <<"c", "o", "s", "m", "o", "s">>, DEFAULT_PREFIX,
      [k \in 1..MAX_LEN |-> "a"], [k \in 1..(MAX_LEN + 1) |-> "a"] }

\* Message lists, signing parameters and memos the model signs.
MessageSamples == { <<"msgA">>, <<"msgA", "msgB">> }

ArgsSamples ==
    { [sequence |-> sq, fee |-> "fee", timeout_height |-> 0,
       chain_id |-> "chain", account_number |-> 7] : sq \in {0, 1} }

MemoSamples == { <<>> }

\* A constructor has just returned a PrivateKey; each operation below is a
\* function of that key and its arguments alone, so it is run on the fresh key.
KeyBuilt ==
    /\ pc = "idle"
    /\ key # NoKey
    /\ fn \in {"from_array", "from_str"}
    /\ ret.tag = "Ok"

\* A call of key.to_public_key(prefix).
ToPublicKey ==
    /\ KeyBuilt
    /\ \E prefix \in LabelSamples :
          /\ fn' = "to_public_key"
          /\ arg' = <<prefix>>
          /\ ret' = to_public_key(key, prefix)
          /\ public_key' = IF to_public_key(key, prefix).tag = "Ok"
                            THEN to_public_key(key, prefix).val ELSE public_key
    /\ UNCHANGED <<signed, pc, shaTable, hmacTable, firstRet, key, build, path, iterator,
                   secret_key, chain_code, steps>>

\* A call of key.to_address(prefix).
ToAddress ==
    /\ KeyBuilt
    /\ \E prefix \in LabelSamples :
          /\ fn' = "to_address"
          /\ arg' = <<prefix>>
          /\ ret' = to_address(key, prefix)
    /\ UNCHANGED <<public_key, signed, pc, shaTable, hmacTable, firstRet, key, build, path, iterator,
                   secret_key, chain_code, steps>>

\* A call of key.get_signed_tx(messages, args, memo).
GetSignedTx ==
    /\ KeyBuilt
    /\ \E messages \in MessageSamples, args \in ArgsSamples, memo \in MemoSamples :
          /\ fn' = "get_signed_tx"
          /\ arg' = <<messages, args, memo>>
          /\ ret' = get_signed_tx(key, messages, args, memo)
    /\ UNCHANGED <<public_key, signed, pc, shaTable, hmacTable, firstRet, key, build, path, iterator,
                   secret_key, chain_code, steps>>

\* A call of key.sign_std_msg(messages, args, memo).
SignStdMsg ==
    /\ KeyBuilt
    /\ \E messages \in MessageSamples, args \in ArgsSamples, memo \in MemoSamples :
          /\ fn' = "sign_std_msg"
          /\ arg' = <<messages, args, memo>>
          /\ ret' = sign_std_msg(key, messages, args, memo)
    /\ UNCHANGED <<public_key, signed, pc, shaTable, hmacTable, firstRet, key, build, path, iterator,
                   secret_key, chain_code, steps>>

----------------------------------------------------------------------------
(* PublicKey: labels, checksummed text, parsing from text *)

\* Length of a compressed point in bytes (33 in the source).
PointLen == KeyLen + 1

\* <ArrayString as Display>::fmt: the stored characters up to the first None.
ArrayStringDisplay(a) ==
    LET stop == { k \in 1..MAX_LEN : a.chars[k] = "None" }
        end == IF stop = {} THEN MAX_LEN
               ELSE (CHOOSE k \in stop : \A h \in stop : k <= h) - 1
    IN  SubSeq(a.chars, 1, end)

\* PublicKey::get_prefix
get_prefix(self) == ArrayStringDisplay(self.prefix)

\* PublicKey::from_slice
from_slice(bytes, prefix) ==
    IF Len(bytes) # PointLen THEN Err("BytesDecodeErrorWrongLength", <<>>)
    ELSE PublicKeyFromBytes(bytes, prefix)

\* Mutant of change_prefix: the stored label is cleared before the new one is
\* checked, so a rejected label leaves the key without its label.
change_prefix_clearing(self, prefix) ==
    IF ArrayStringNew(prefix).tag = "Err"
    THEN [ret |-> Err("PrefixTooLong", <<>>),
          self |-> [self EXCEPT !.prefix = ArrayStringNew(<<>>).val]]
    ELSE [ret |-> Ok(<<>>),
          self |-> [self EXCEPT !.prefix = ArrayStringNew(prefix).val]]

\* PublicKey::change_prefix: the result and the key afterwards; the ? returns
\* before the assignment.
change_prefix(self, prefix) ==
    IF ArrayStringNew(prefix).tag = "Err"
    THEN [ret |-> Err("PrefixTooLong", <<>>), self |-> self]
    ELSE [ret |-> Ok(<<>>),
          self |-> [self EXCEPT !.prefix = ArrayStringNew(prefix).val]]

\* str::ends_with(&str)
EndsWith(text, suffix) ==
    /\ Len(text) >= Len(suffix)
    /\ SubSeq(text, Len(text) - Len(suffix) + 1, Len(text)) = suffix

RECURSIVE TrimEndMatches(_, _)
\* str::trim_end_matches(&str): the suffix is removed as often as it repeats.
TrimEndMatches(text, suffix) ==
    IF suffix # <<>> /\ EndsWith(text, suffix)
    THEN TrimEndMatches(SubSeq(text, 1, Len(text) - Len(suffix)), suffix)
    ELSE text

\* "pub"
PubSuffix == <<"p", "u", "b">>

\* PublicKey::to_address
public_key_to_address(self) ==
    LET current_prefix == get_prefix(self)
        new_prefix == IF EndsWith(current_prefix, PubSuffix)
                      THEN TrimEndMatches(current_prefix, PubSuffix)
                      ELSE current_prefix
        address == to_address_with_prefix(self, new_prefix)
    IN  IF address.tag = "Err" THEN Panic("to_address: unwrap")
        ELSE address

\* The five bytes the amino representation prepends.
AminoPrefix == <<235, 90, 233, 135, 33>>

\* PublicKey::to_amino_bytes
to_amino_bytes(self) == AminoPrefix \o self.bytes

RECURSIVE ToBits(_, _)
\* n written in width bits, the most significant first.
ToBits(n, width) ==
    IF width = 0 THEN <<>> ELSE ToBits(n \div 2, width - 1) \o <<n % 2>>

RECURSIVE BitsOf(_, _)
\* The bits of a sequence of width-bit values.
BitsOf(values, width) ==
    IF values = <<>> THEN <<>>
    ELSE ToBits(Head(values), width) \o BitsOf(Tail(values), width)

RECURSIVE FromBits(_)
FromBits(bits) ==
    IF bits = <<>> THEN 0
    ELSE 2 * FromBits(SubSeq(bits, 1, Len(bits) - 1)) + bits[Len(bits)]

\* The full groups of width bits, as numbers.
Groups(bits, width) ==
    [j \in 1..(Len(bits) \div width) |->
        FromBits(SubSeq(bits, (j - 1) * width + 1, j * width))]

\* ToBase32::to_base32: 8-bit to 5-bit regrouping, the last group zero-padded.
ToBase32(bytes) ==
    LET bits == BitsOf(bytes, 8)
        pad == (5 - (Len(bits) % 5)) % 5
    IN  Groups(bits \o [k \in 1..pad |-> 0], 5)

\* FromBase32::from_base32: 5-bit to 8-bit regrouping; five or more bits left
\* over, or a left-over bit that is set, is refused.
FromBase32(data) ==
    LET bits == BitsOf(data, 5)
        rest == Len(bits) % 8
    IN  IF rest >= 5 \/ \E k \in (Len(bits) - rest + 1)..Len(bits) : bits[k] = 1
        THEN Err("InvalidPadding", <<>>)
        ELSE Ok(Groups(bits, 8))

\* The 32 characters of the data part of a checksummed text.
Bech32Charset ==
    <<"q", "p", "z", "r", "y", "9", "x", "8", "g", "f", "2", "t", "v", "d",
      "w", "0", "s", "3", "j", "n", "5", "4", "k", "h", "c", "e", "6", "m",
      "u", "a", "7", "l">>

LowerCase ==
    <<"a", "b", "c", "d", "e", "f", "g", "h", "i", "j", "k", "l", "m", "n",
      "o", "p", "q", "r", "s", "t", "u", "v", "w", "x", "y", "z">>

UpperCase ==
    <<"A", "B", "C", "D", "E", "F", "G", "H", "I", "J", "K", "L", "M", "N",
      "O", "P", "Q", "R", "S", "T", "U", "V", "W", "X", "Y", "Z">>

IsLower(c) == \E k \in 1..Len(LowerCase) : LowerCase[k] = c

IsUpper(c) == \E k \in 1..Len(UpperCase) : UpperCase[k] = c

ToLower(c) ==
    IF IsUpper(c) THEN LowerCase[CHOOSE k \in 1..Len(UpperCase) : UpperCase[k] = c]
    ELSE c

\* str::to_lowercase
ToLowercase(text) == [k \in 1..Len(text) |-> ToLower(text[k])]

\* Value of a data character, -1 when it is none.
CharsetValue(c) ==
    IF \E k \in 1..Len(Bech32Charset) : Bech32Charset[k] = c
    THEN (CHOOSE k \in 1..Len(Bech32Charset) : Bech32Charset[k] = c) - 1
    ELSE -1

\* bech32's check of a human-readable part: its case, or why it is refused.
check_hrp(hrp) ==
    IF hrp = <<>> \/ Len(AsBytes(hrp)) > 83 THEN "InvalidLength"
    ELSE IF \E k \in 1..Len(AsBytes(hrp)) :
                AsBytes(hrp)[k] < 33 \/ AsBytes(hrp)[k] > 126
    THEN "InvalidChar"
    ELSE IF (\E k \in 1..Len(hrp) : IsLower(hrp[k]))
            /\ (\E k \in 1..Len(hrp) : IsUpper(hrp[k]))
    THEN "MixedCase"
    ELSE IF \E k \in 1..Len(hrp) : IsUpper(hrp[k]) THEN "Upper"
    ELSE IF \E k \in 1..Len(hrp) : IsLower(hrp[k]) THEN "Lower"
    ELSE "None"

HrpRefused == {"InvalidLength", "InvalidChar", "MixedCase"}

\* Number of checksum characters of a checksummed text.
ChecksumLen == 6

\* The constant each variant of the checksum is computed with.
VariantConst == ( "Bech32" :> 1 @@ "Bech32m" :> 2 )

RECURSIVE SumOf(_)
SumOf(values) ==
    IF values = <<>> THEN 0
    ELSE IF Len(values) = 1 THEN values[1]
    ELSE SumOf(SubSeq(values, 1, Len(values) \div 2))
         + SumOf(SubSeq(values, Len(values) \div 2 + 1, Len(values)))

\* The checksum of (hrp, data) under a variant: ChecksumLen 5-bit values, a
\* fixed function of the lower-case hrp, of every data value with its
\* position, and of the variant.  It stands for bech32's polymod.
Bech32Checksum(hrp, data, variant) ==
    [j \in 1..ChecksumLen |->
        (VariantConst[variant] + j * (SumOf(AsBytes(hrp)) + Len(hrp))
         + SumOf([i \in 1..Len(data) |-> (i + j) * (data[i] + 1)])) % 32]

\* bech32::encode(hrp, data, variant): the lower-cased hrp, the separator, the
\* data and checksum characters.
Bech32Encode(hrp, data, variant) ==
    LET lower == ToLowercase(hrp)
        values == data \o Bech32Checksum(lower, data, variant)
    IN  IF check_hrp(hrp) \in HrpRefused THEN Err("Bech32Error", <<check_hrp(hrp)>>)
        ELSE Ok(lower \o <<"1">> \o [k \in 1..Len(values) |-> Bech32Charset[values[k] + 1]])

\* bech32::decode(s): the text is cut at its last separator; hrp and data must
\* be of one case, the data characters of the charset, the checksum that of
\* either variant.
Bech32Decode(s) ==
    LET sep == CHOOSE k \in 1..Len(s) :
                   s[k] = "1" /\ \A h \in (k + 1)..Len(s) : s[h] # "1"
        raw_hrp == SubSeq(s, 1, sep - 1)
        raw_data == SubSeq(s, sep + 1, Len(s))
        hrp_lower == ToLowercase(raw_hrp)
        values == [k \in 1..Len(raw_data) |-> CharsetValue(ToLower(raw_data[k]))]
        data == SubSeq(values, 1, Len(values) - ChecksumLen)
        check == SubSeq(values, Len(values) - ChecksumLen + 1, Len(values))
        found(variant) == Ok([hrp |-> hrp_lower, data |-> data, variant |-> variant])
    IN  IF Len(AsBytes(s)) < 8 THEN Err("InvalidLength", <<>>)
        ELSE IF ~Contains(s, "1") THEN Err("MissingSeparator", <<>>)
        ELSE IF check_hrp(raw_hrp) \in HrpRefused THEN Err(check_hrp(raw_hrp), <<>>)
        ELSE IF (\E k \in 1..Len(s) : IsLower(s[k])) /\ (\E k \in 1..Len(s) : IsUpper(s[k]))
        THEN Err("MixedCase", <<>>)
        ELSE IF \E k \in 1..Len(values) : values[k] = -1 THEN Err("InvalidChar", <<>>)
        ELSE IF Len(values) < ChecksumLen THEN Err("InvalidLength", <<>>)
        ELSE IF check = Bech32Checksum(hrp_lower, data, "Bech32") THEN found("Bech32")
        ELSE IF check = Bech32Checksum(hrp_lower, data, "Bech32m") THEN found("Bech32m")
        ELSE Err("InvalidChecksum", <<>>)

\* PublicKey::to_bech32
to_bech32(self, hrp) ==
    Bech32Encode(hrp, ToBase32(to_amino_bytes(self)), "Bech32")

\* <PublicKey as Display>::fmt and <PublicKey as Debug>::fmt: the text, or the
\* panic of the unwrap.
fmt(self) ==
    IF to_bech32(self, get_prefix(self)).tag = "Err"
    THEN Panic("fmt: to_bech32 unwrap")
    ELSE to_bech32(self, get_prefix(self))

\* Length of the payload from_bech32 asks for (38 in the source).
PayloadLen == Len(AminoPrefix) + PointLen

\* Mutant of from_bech32: a payload of another length is cut or zero-filled
\* to a point instead of being refused.
from_bech32_coercing(s) ==
    LET decoded == Bech32Decode(s)
        vec == FromBase32(decoded.val.data)
        tail == IF Len(vec.val) >= PointLen
                THEN SubSeq(vec.val, Len(vec.val) - PointLen + 1, Len(vec.val))
                ELSE vec.val \o [k \in 1..(PointLen - Len(vec.val)) |-> 0]
    IN  IF decoded.tag = "Err" THEN Err("Bech32InvalidEncoding", <<>>)
        ELSE IF vec.tag = "Err" THEN Err("Bech32InvalidBase32", <<>>)
        ELSE PublicKeyFromBytes(tail, decoded.val.hrp)

\* PublicKey::from_bech32
from_bech32(s) ==
    LET decoded == Bech32Decode(s)
        vec == FromBase32(decoded.val.data)
    IN  IF decoded.tag = "Err" THEN Err("Bech32InvalidEncoding", <<>>)
        ELSE IF vec.tag = "Err" THEN Err("Bech32InvalidBase32", <<>>)
        ELSE IF Len(vec.val) # PayloadLen THEN Err("Bech32WrongLength", <<>>)
        ELSE PublicKeyFromBytes(SubSeq(vec.val, Len(AminoPrefix) + 1, Len(vec.val)),
                                decoded.val.hrp)

\* The alphabet of standard base-64.
Base64Chars ==
    <<"A", "B", "C", "D", "E", "F", "G", "H", "I", "J", "K", "L", "M", "N",
      "O", "P", "Q", "R", "S", "T", "U", "V", "W", "X", "Y", "Z", "a", "b",
      "c", "d", "e", "f", "g", "h", "i", "j", "k", "l", "m", "n", "o", "p",
      "q", "r", "s", "t", "u", "v", "w", "x", "y", "z", "0", "1", "2", "3",
      "4", "5", "6", "7", "8", "9", "+", "/">>

Base64Value(c) ==
    IF \E k \in 1..Len(Base64Chars) : Base64Chars[k] = c
    THEN (CHOOSE k \in 1..Len(Base64Chars) : Base64Chars[k] = c) - 1
    ELSE -1

\* STANDARD_NO_PAD decode: every character of the alphabet (no padding
\* character), no single left-over character, left-over bits zero.
Base64Decode(s) ==
    LET values == [k \in 1..Len(s) |-> Base64Value(s[k])]
        bits == BitsOf(values, 6)
        rest == Len(bits) % 8
    IN  IF \E k \in 1..Len(s) : values[k] = -1 THEN Err("InvalidByte", <<>>)
        ELSE IF Len(s) % 4 = 1 THEN Err("InvalidLength", <<>>)
        ELSE IF \E k \in (Len(bits) - rest + 1)..Len(bits) : bits[k] = 1
        THEN Err("InvalidLastSymbol", <<>>)
        ELSE Ok(Groups(bits, 8))

\* <PublicKey as FromStr>::from_str
public_key_from_str(s) ==
    IF from_bech32(s).tag = "Ok" THEN from_bech32(s)
    ELSE IF hex_str_to_bytes(s).tag = "Ok"
    THEN IF Len(hex_str_to_bytes(s).val) = PointLen
         THEN PublicKeyFromBytes(hex_str_to_bytes(s).val, DEFAULT_PREFIX)
         ELSE Err("HexDecodeErrorWrongLength", <<>>)
    ELSE IF Base64Decode(s).tag = "Ok"
    THEN IF Len(Base64Decode(s).val) = PointLen
         THEN PublicKeyFromBytes(Base64Decode(s).val, DEFAULT_PREFIX)
         ELSE Err("BytesDecodeErrorWrongLength", <<>>)
    ELSE Err("Base64DecodeError", <<Base64Decode(s).err>>)

\* Points the model builds public keys from: all zero, and one of each parity.
PointSamples ==
    { [k \in 1..PointLen |-> 0],
      <<2>> \o ToFixedBE(1, KeyLen),
      <<3>> \o ToFixedBE(ScalarSpace - 1, KeyLen) }

\* Labels the model builds and relabels public keys with: empty; the usual
\* ones; labels ending in "pub" once, twice, and being just "pub"; upper and
\* mixed case; one with a blank; MAX_LEN and MAX_LEN + 1 one-byte characters;
\* MAX_LEN \div 2 and MAX_LEN \div 2 + 1 two-byte characters.
PrefixSamples ==
    { <<>>, <<"c", "o", "s", "m", "o", "s">>, DEFAULT_PREFIX,
      DEFAULT_PREFIX \o PubSuffix, PubSuffix, <<"a", "b", "c">>,
      <<"A", "B", "C">>, <<"A", "b", "c">>, <<"a", " ", "b">>,
      [k \in 1..MAX_LEN |-> "a"], [k \in 1..(MAX_LEN + 1) |-> "a"],
      [k \in 1..(MAX_LEN \div 2) |-> "U+00E9"],
      [k \in 1..((MAX_LEN \div 2) + 1) |-> "U+00E9"] }

\* The checksummed text of a payload under a label that bech32 accepts.
EncodedPayload(hrp, payload, variant) ==
    Bech32Encode(hrp, ToBase32(payload), variant).val

\* A text with its last character replaced by another of the charset.
LastCharChanged(text) ==
    [text EXCEPT ![Len(text)] =
        Bech32Charset[((CharsetValue(text[Len(text)]) + 1) % 32) + 1]]

\* str::to_uppercase, for sample texts.
ToUppercase(text) ==
    [k \in 1..Len(text) |->
        IF IsLower(text[k])
        THEN UpperCase[CHOOSE j \in 1..Len(LowerCase) : LowerCase[j] = text[k]]
        ELSE text[k]]

\* Texts handed to from_bech32: the text of every sample point under the
\* labels bech32 accepts, one in upper case, one of the other checksum
\* variant, one with a changed checksum, payloads that are too short, too
\* long, empty or start with other bytes than the amino ones, data with five
\* bits left over or a padding bit set, labels longer than MAX_LEN and longer
\* than bech32 allows, and texts without a separator.
Bech32Texts ==
    LET point == <<2>> \o ToFixedBE(1, KeyLen)
        payload == AminoPrefix \o point
        text == EncodedPayload(DEFAULT_PREFIX, payload, "Bech32")
        data == ToBase32(payload)
    IN  { EncodedPayload(hrp, AminoPrefix \o pt, "Bech32") :
             hrp \in { h \in PrefixSamples : check_hrp(h) \notin HrpRefused },
             pt \in PointSamples }
        \cup { ToUppercase(text), text \o <<"Q">>, LastCharChanged(text),
               EncodedPayload(DEFAULT_PREFIX, payload, "Bech32m"),
               EncodedPayload(DEFAULT_PREFIX, AminoPrefix \o Tail(point), "Bech32"),
               EncodedPayload(DEFAULT_PREFIX, payload \o <<0>>, "Bech32"),
               EncodedPayload(DEFAULT_PREFIX, point, "Bech32"),
               EncodedPayload(<<"a">>, <<>>, "Bech32"),
               EncodedPayload(DEFAULT_PREFIX, <<1, 2, 3, 4, 5>> \o point, "Bech32"),
               Bech32Encode(DEFAULT_PREFIX, data \o <<0>>, "Bech32").val,
               Bech32Encode(DEFAULT_PREFIX,
                            [data EXCEPT ![Len(data)] = data[Len(data)] + 1],
                            "Bech32").val,
               EncodedPayload([k \in 1..83 |-> "a"], payload, "Bech32"),
               <<"a", "1">> \o SubSeq(text, 1, Len(text)),
               DEFAULT_PREFIX, <<"1">>, <<>> }

\* Unpadded standard base-64 of a byte string, for sample texts.
Base64Encode(bytes) ==
    LET bits == BitsOf(bytes, 8)
        pad == (6 - (Len(bits) % 6)) % 6
        values == Groups(bits \o [k \in 1..pad |-> 0], 6)
    IN  [k \in 1..Len(values) |-> Base64Chars[values[k] + 1]]

\* Texts handed to the PublicKey parser: the checksummed texts, the hex and
\* the base-64 form of every sample point and of byte strings one shorter and
\* one longer, and short texts that are none of them.
PublicKeyTexts ==
    Bech32Texts
    \cup { bytes_to_hex_str(b) : b \in PointSamples }
    \cup { <<"0", "x">> \o bytes_to_hex_str(b) : b \in PointSamples }
    \cup { Base64Encode(b) : b \in PointSamples }
    \cup { bytes_to_hex_str(<<2>> \o ToFixedBE(1, KeyLen) \o <<7>>),
           bytes_to_hex_str(ToFixedBE(1, KeyLen)),
           Base64Encode(<<2>> \o ToFixedBE(1, KeyLen) \o <<7>>),
           Base64Encode(ToFixedBE(300, KeyLen)),
           Base64Encode([k \in 1..PointLen |-> 0]) \o <<"=">>,
           <<"g">>, <<"z", "z">>, <<"U+00E9">>, <<" ">> }

\* A call of ArrayString::new(input).
ArrayStringNewCall ==
    /\ pc = "idle"
    /\ fn = "none"
    /\ \E input \in PrefixSamples :
          /\ fn' = "ArrayString::new"
          /\ arg' = <<input>>
          /\ ret' = ArrayStringNew(input)
    /\ UNCHANGED <<pc, shaTable, hmacTable, firstRet, key, build, path, iterator,
                   secret_key, chain_code, steps, public_key, signed>>

\* The caller's PublicKey after a constructor returned result.
Held(result) == IF result.tag = "Ok" THEN result.val ELSE public_key

\* A call of PublicKey::from_bytes(bytes, prefix).
PublicKeyFromBytesCall ==
    /\ pc = "idle"
    /\ fn = "none"
    /\ \E bytes \in PointSamples, prefix \in PrefixSamples :
          /\ fn' = "from_bytes"
          /\ arg' = <<bytes, prefix>>
          /\ ret' = PublicKeyFromBytes(bytes, prefix)
          /\ public_key' = Held(PublicKeyFromBytes(bytes, prefix))
    /\ UNCHANGED <<pc, shaTable, hmacTable, firstRet, key, build, path, iterator,
                   secret_key, chain_code, steps, signed>>

\* A call of PublicKey::from_slice(bytes, prefix).
FromSlice ==
    /\ pc = "idle"
    /\ fn = "none"
    /\ \E bytes \in PointSamples \cup { <<>>, <<2>> \o ToFixedBE(1, KeyLen) \o <<7>>,
                                        ToFixedBE(1, KeyLen) },
          prefix \in PrefixSamples :
          /\ fn' = "from_slice"
          /\ arg' = <<bytes, prefix>>
          /\ ret' = from_slice(bytes, prefix)
          /\ public_key' = Held(from_slice(bytes, prefix))
    /\ UNCHANGED <<pc, shaTable, hmacTable, firstRet, key, build, path, iterator,
                   secret_key, chain_code, steps, signed>>

\* A call of PublicKey::from_bech32(s).
FromBech32 ==
    /\ pc = "idle"
    /\ fn = "none"
    /\ \E s \in Bech32Texts :
          /\ fn' = "from_bech32"
          /\ arg' = <<s>>
          /\ ret' = from_bech32(s)
          /\ public_key' = Held(from_bech32(s))
    /\ UNCHANGED <<pc, shaTable, hmacTable, firstRet, key, build, path, iterator,
                   secret_key, chain_code, steps, signed>>

\* A call of str::parse::<PublicKey>(s).
PublicKeyFromStr ==
    /\ pc = "idle"
    /\ fn = "none"
    /\ \E s \in PublicKeyTexts :
          /\ fn' = "public_key_from_str"
          /\ arg' = <<s>>
          /\ ret' = public_key_from_str(s)
          /\ public_key' = Held(public_key_from_str(s))
    /\ UNCHANGED <<pc, shaTable, hmacTable, firstRet, key, build, path, iterator,
                   secret_key, chain_code, steps, signed>>

\* The caller holds a PublicKey and no call is running.
HasPublicKey == pc = "idle" /\ public_key # NoPubKey

\* A call of public_key.change_prefix(prefix); arg keeps the key before it.
ChangePrefix ==
    /\ HasPublicKey
    /\ \E prefix \in PrefixSamples :
          /\ fn' = "change_prefix"
          /\ arg' = <<public_key, prefix>>
          /\ ret' = change_prefix(public_key, prefix).ret
          /\ public_key' = change_prefix(public_key, prefix).self
    /\ UNCHANGED <<pc, shaTable, hmacTable, firstRet, key, build, path, iterator,
                   secret_key, chain_code, steps, signed>>

\* A call of public_key.to_address().
PublicKeyToAddress ==
    /\ HasPublicKey
    /\ fn' = "public_key_to_address"
    /\ arg' = <<public_key>>
    /\ ret' = public_key_to_address(public_key)
    /\ UNCHANGED <<pc, shaTable, hmacTable, firstRet, key, build, path, iterator,
                   secret_key, chain_code, steps, public_key, signed>>

\* A call of public_key.to_address_with_prefix(prefix).
ToAddressWithPrefix ==
    /\ HasPublicKey
    /\ \E prefix \in { <<"c", "o", "s", "m", "o", "s">>, [k \in 1..(MAX_LEN + 1) |-> "a"] } :
          /\ fn' = "to_address_with_prefix"
          /\ arg' = <<public_key, prefix>>
          /\ ret' = to_address_with_prefix(public_key, prefix)
    /\ UNCHANGED <<pc, shaTable, hmacTable, firstRet, key, build, path, iterator,
                   secret_key, chain_code, steps, public_key, signed>>

\* A call of public_key.to_bech32(hrp), with the key's own label or the
\* default one.
ToBech32 ==
    /\ HasPublicKey
    /\ \E hrp \in { get_prefix(public_key), DEFAULT_PREFIX } :
          /\ fn' = "to_bech32"
          /\ arg' = <<public_key, hrp>>
          /\ ret' = to_bech32(public_key, hrp)
    /\ UNCHANGED <<pc, shaTable, hmacTable, firstRet, key, build, path, iterator,
                   secret_key, chain_code, steps, public_key, signed>>

\* The PublicKey is formatted with Display or Debug.
Fmt ==
    /\ HasPublicKey
    /\ fn' = "fmt"
    /\ arg' = <<public_key>>
    /\ ret' = fmt(public_key)
    /\ UNCHANGED <<pc, shaTable, hmacTable, firstRet, key, build, path, iterator,
                   secret_key, chain_code, steps, public_key, signed>>

----------------------------------------------------------------------------
(* Repeated signing with one key *)

\* Number of different signing inputs the model lets one key sign.
MaxSigned == 2

\* The signing operations.
SignOps == {"get_signed_tx", "sign_std_msg"}

\* A key was built from an array and has only signed since.
KeySigning ==
    /\ pc = "idle"
    /\ key # NoKey
    /\ fn \in {"from_array"} \cup SignOps

\* The table of first results after the call `input` returned `result`.
Recorded(input, result) ==
    IF input \in DOMAIN signed THEN signed
    ELSE [x \in DOMAIN signed \cup {input} |->
            IF x = input THEN result ELSE signed[x]]

\* A new input may be signed while fewer than MaxSigned are recorded; a
\* recorded one may be signed again.
MaySign(input) ==
    input \in DOMAIN signed \/ Cardinality(DOMAIN signed) < MaxSigned

\* A call of key.get_signed_tx(messages, args, memo), after any earlier
\* signing calls; the table keeps the first result of each input.
GetSignedTxAgain ==
    /\ KeySigning
    /\ \E messages \in MessageSamples, args \in ArgsSamples, memo \in MemoSamples :
          /\ MaySign(<<"get_signed_tx", key, messages, args, memo>>)
          /\ fn' = "get_signed_tx"
          /\ arg' = <<messages, args, memo>>
          /\ ret' = get_signed_tx(key, messages, args, memo)
          /\ signed' = Recorded(<<"get_signed_tx", key, messages, args, memo>>,
                                get_signed_tx(key, messages, args, memo))
    /\ UNCHANGED <<pc, shaTable, hmacTable, firstRet, key, build, path, iterator,
                   secret_key, chain_code, steps, public_key>>

\* A call of key.sign_std_msg(messages, args, memo), after any earlier signing
\* calls.
SignStdMsgAgain ==
    /\ KeySigning
    /\ \E messages \in MessageSamples, args \in ArgsSamples, memo \in MemoSamples :
          /\ MaySign(<<"sign_std_msg", key, messages, args, memo>>)
          /\ fn' = "sign_std_msg"
          /\ arg' = <<messages, args, memo>>
          /\ ret' = sign_std_msg(key, messages, args, memo)
          /\ signed' = Recorded(<<"sign_std_msg", key, messages, args, memo>>,
                                sign_std_msg(key, messages, args, memo))
    /\ UNCHANGED <<pc, shaTable, hmacTable, firstRet, key, build, path, iterator,
                   secret_key, chain_code, steps, public_key>>

----------------------------------------------------------------------------
(* Specifications *)

Init ==
    /\ pc = "idle"
    /\ fn = "none"
    /\ arg = <<>>
    /\ ret = NoRet
    /\ shaTable = <<>>
    /\ hmacTable = <<>>
    /\ firstRet = <<>>
    /\ key = NoKey
    /\ build = "any"
    /\ path = <<>>
    /\ iterator = <<>>
    /\ secret_key = <<>>
    /\ chain_code = <<>>
    /\ steps = <<>>
    /\ public_key = NoPubKey
    /\ signed = <<>>

NextSecret == FromSecret

SpecSecret == Init /\ [][NextSecret]_vars

NextHd == FromHdWalletPath \/ FromPhrase \/ HdLoopStep \/ HdReturn

SpecHd == Init /\ [][NextHd]_vars

NextText ==
    \/ FromArray \/ FromStr \/ HexStrToBytes \/ HdLoopStep \/ HdReturn
    \/ ToPublicKey \/ ToAddress \/ GetSignedTx \/ SignStdMsg

SpecText == Init /\ [][NextText]_vars

NextPub ==
    \/ ArrayStringNewCall \/ PublicKeyFromBytesCall \/ FromSlice \/ FromBech32
    \/ PublicKeyFromStr
    \/ ChangePrefix \/ PublicKeyToAddress \/ ToAddressWithPrefix \/ ToBech32 \/ Fmt

SpecPub == Init /\ [][NextPub]_vars

NextSign == FromArray \/ GetSignedTxAgain \/ SignStdMsgAgain

SpecSign == Init /\ [][NextSign]_vars

----------------------------------------------------------------------------
(* Properties of from_secret *)

\* The integer from_secret computes from the digest of the last call's secret:
\* (SHA-256(secret) mod (curve_order - 1)) + 1.
ReducedInteger == (FromBytesBE(shaTable[arg[1]]) % (CurveN - 1)) + 1

\* C1: from_secret is total and deterministic: every call returns a KeyLen-byte
\* scalar, the same one as the first call on that secret, and the scalar read
\* big-endian is nonzero and strictly less than the curve order.
C1_FromSecretValidScalar ==
    fn = "from_secret" =>
        /\ ret.tag = "Ok"
        /\ Len(ret.val) = KeyLen
        /\ ret = firstRet[arg[1]]
        /\ FromBytesBE(ret.val) > 0
        /\ FromBytesBE(ret.val) < CurveN

\* C2: when the reduced integer has a big-endian representation shorter than
\* KeyLen bytes, the stored scalar is that representation left-padded with
\* zero bytes, and so reads back as the reduced integer.
C2_FromSecretLeftPads ==
    (fn = "from_secret" /\ Len(ToBytesBE(ReducedInteger)) < KeyLen) =>
        /\ ret.tag = "Ok"
        /\ ret.val = ToFixedBE(ReducedInteger, KeyLen)
        /\ FromBytesBE(ret.val) = ReducedInteger

----------------------------------------------------------------------------
(* Properties of HD derivation *)

\* A call of from_hd_wallet_path or from_phrase has returned (or aborted).
HdDone == pc = "idle" /\ fn \in {"from_hd_wallet_path", "from_phrase"}

\* The phrase and passphrase of the current HD call.
HdPhrase == IF fn = "from_phrase" THEN arg[1] ELSE arg[2]

HdPassphrase == IF fn = "from_phrase" THEN arg[2] ELSE arg[3]

\* The keyed hash of the seed has been computed and its first half is zero or
\* not below the curve order.
MasterDegenerate ==
    LET q == <<BitcoinSeed, MnemonicSeed(HdPhrase, HdPassphrase)>>
    IN  /\ q \in DOMAIN hmacTable
        /\ ~SecretKeyFromSlice(SubSeq(hmacTable[q], 1, KeyLen))

\* The aborts of get_child_key on a degenerate I_L or a zero sum.
ChildDegeneratePanics ==
    { "get_child_key: SecretKey::from_slice(I_L) unwrap",
      "get_child_key: add_tweak unwrap" }

\* C3: HD derivation never aborts on a degenerate scalar: a degenerate master
\* candidate, a degenerate I_L or a zero child sum makes the call return a
\* key-derivation error value.
C3_DegenerateScalarIsError ==
    HdDone =>
        /\ MasterDegenerate => (ret.tag = "Err" /\ ret.err = "KeyDerivationError")
        /\ ~(ret.tag = "Panic" /\ ret.err \in ChildDegeneratePanics)

\* C4: every path that contains a reverse slash or whose first segment is not
\* the root marker m fails with InvalidPathSpec carrying the path, whatever the
\* phrase and passphrase.
C4_BadRootIsInvalidPathSpec ==
    (pc = "idle" /\ fn = "from_hd_wallet_path"
        /\ (Contains(arg[1], "\\") \/ Split(arg[1], "/")[1] # <<"m">>)) =>
        ret = Err("InvalidPathSpec", arg[1])

\* A non-empty run of decimal digits.
IsDigits(text) ==
    Len(text) > 0 /\ \A k \in 1..Len(text) : text[k] \in DOMAIN DecVal

RECURSIVE DecimalValue(_)
\* The number a run of decimal digits writes.
DecimalValue(digits) ==
    IF digits = <<>> THEN 0
    ELSE DecimalValue(SubSeq(digits, 1, Len(digits) - 1)) * 10
         + DecVal[digits[Len(digits)]]

\* The digits of a path segment of the grammar: the segment itself, or the
\* segment without its one trailing hardening marker.
SegmentDigits(seg) ==
    IF Len(seg) > 0 /\ seg[Len(seg)] = "'" THEN SubSeq(seg, 1, Len(seg) - 1) ELSE seg

\* A segment of the path grammar: a bare decimal integer, or one followed by
\* one trailing hardening marker.
GrammarSegment(seg) == IsDigits(SegmentDigits(seg))

\* The segments after the first.
LaterSegments(text) == Tail(Split(text, "/"))

\* A path of the grammar: the root marker, then grammar segments.
GrammarPath(text) ==
    /\ Split(text, "/")[1] = <<"m">>
    /\ \A k \in 1..Len(LaterSegments(text)) : GrammarSegment(LaterSegments(text)[k])

\* The (index, hardened) steps a path of the grammar denotes.
GrammarSteps(text) ==
    [k \in 1..Len(LaterSegments(text)) |->
        <<DecimalValue(SegmentDigits(LaterSegments(text)[k])),
          LaterSegments(text)[k][Len(LaterSegments(text)[k])] = "'">>]

\* Every digit run of the path writes an index of IndexBits - 1 bits.
IndicesFit(text) ==
    \A k \in 1..Len(LaterSegments(text)) :
        LET run == TrimMatches(LaterSegments(text)[k], "'")
        IN  IsDigits(run) => DecimalValue(run) < HardenedOffset

\* C5: given a decodable phrase, a path is accepted exactly when every segment
\* after the root marker is a grammar segment, a step is hardened exactly when
\* its segment carries the trailing marker, and every other segment shape is
\* InvalidPathSpec carrying the path.  (Stated for rooted paths without a
\* reverse slash, indices that fit, and calls that did not abort.)
C5_PathAcceptedIffGrammar ==
    (pc = "idle" /\ fn = "from_hd_wallet_path" /\ MnemonicDecodes(arg[2])
        /\ Split(arg[1], "/")[1] = <<"m">> /\ ~Contains(arg[1], "\\")
        /\ IndicesFit(arg[1]) /\ ret.tag # "Panic") =>
        IF GrammarPath(arg[1])
        THEN ret.tag = "Ok" /\ steps = GrammarSteps(arg[1])
        ELSE ret = Err("InvalidPathSpec", arg[1])

\* The outcome of the keyed hash on (key, data): its tabulated output.
HmacKnown(hkey, data) == <<hkey, data>> \in DOMAIN hmacTable

RECURSIVE ChildFold(_, _, _)
\* get_child_key applied to the steps in order from (k, c), each step on the
\* scalar and chain code of the one before: the final scalar, the abort of the
\* first step that aborts, or Unknown when a hash needed was never computed.
ChildFold(k, c, todo) ==
    IF todo = <<>> THEN Ok(k)
    ELSE LET i == Head(todo)[1]
             hardened == Head(todo)[2]
             data == ChildData(k, IF hardened THEN HardenedOffset + i ELSE i, hardened)
         IN  IF ~HmacKnown(c, data) THEN Err("Unknown", <<>>)
             ELSE LET child == get_child_key(k, c, i, hardened, hmacTable[<<c, data>>])
                  IN  IF child.tag # "Ok" THEN child
                      ELSE ChildFold(child.val[1], child.val[2], Tail(todo))

\* The master pair of the seed folded over the steps.
DeriveFold(seed, todo) ==
    IF ~HmacKnown(BitcoinSeed, seed) THEN Err("Unknown", <<>>)
    ELSE LET master == master_key_from_seed(hmacTable[<<BitcoinSeed, seed>>])
         IN  IF master.tag # "Ok" THEN master
             ELSE ChildFold(master.val[1], master.val[2], todo)

\* The steps of m/44'/118'/0'/0/0.
CosmosSteps ==
    << <<44, TRUE>>, <<118, TRUE>>, <<0, TRUE>>, <<0, FALSE>>, <<0, FALSE>> >>

\* The steps the current HD call is to derive along.
HdSteps == IF fn = "from_phrase" THEN CosmosSteps ELSE GrammarSteps(arg[1])

\* The current HD call has a decodable phrase and a path of the grammar whose
\* indices fit.
HdWellFormed ==
    /\ MnemonicDecodes(HdPhrase)
    /\ fn = "from_hd_wallet_path" => (GrammarPath(arg[1]) /\ IndicesFit(arg[1]))

\* C6: for a decodable phrase and a well-formed path the call returns exactly
\* the scalar of the fold of get_child_key over the path's steps from the
\* master pair (the master scalar for the path m alone); from_phrase returns the
\* fold over m/44'/118'/0'/0/0.  When the fold yields no scalar, neither does
\* the call.
C6_DerivationIsFold ==
    (HdDone /\ HdWellFormed) =>
        LET fold == DeriveFold(MnemonicSeed(HdPhrase, HdPassphrase), HdSteps)
        IN  \/ fold.tag = "Ok" /\ ret = fold
            \/ fold.tag = "Panic" /\ ret.tag = "Panic"

\* A two-step path, hardened then not, has been derived to a key.
C6_Witness ==
    /\ HdDone /\ HdWellFormed
    /\ fn = "from_hd_wallet_path"
    /\ ret.tag = "Ok"
    /\ Len(steps) = 2 /\ steps[1][2] /\ ~steps[2][2]

----------------------------------------------------------------------------
(* Properties of text parsing and of the hex codec *)

\* The hexadecimal digits, either case.
HexDigitChars ==
    { "0", "1", "2", "3", "4", "5", "6", "7", "8", "9",
      "a", "b", "c", "d", "e", "f", "A", "B", "C", "D", "E", "F" }

\* The text has a character that is no hexadecimal digit.
HasNonHex(text) == \E k \in 1..Len(text) : text[k] \notin HexDigitChars

\* What from_phrase(phrase, passphrase) returns, read off the tabulated hash:
\* the mnemonic error, or the fold over m/44'/118'/0'/0/0.
PhraseResult(phrase, passphrase) ==
    IF phrase = <<>> \/ ~MnemonicDecodes(phrase) THEN Err("Bip39Error", <<>>)
    ELSE DeriveFold(MnemonicSeed(phrase, passphrase), CosmosSteps)

\* C7: parsing a PrivateKey from text is an ordered chain: a successful hex
\* decode is the key when it has KeyLen bytes and HexDecodeErrorWrongLength
\* otherwise (no phrase fallback); a failed decode of a text with a non-hex
\* character is exactly from_phrase(text, ""); a failed decode of a text
\* without one returns the decode error.
C7_FromStrChain ==
    (pc = "idle" /\ fn = "from_str") =>
        LET decoded == hex_str_to_bytes(arg[1])
        IN  IF decoded.tag = "Ok"
            THEN IF Len(decoded.val) = KeyLen
                 THEN ret = Ok(decoded.val) /\ key = decoded.val
                 ELSE ret = Err("HexDecodeErrorWrongLength", <<>>) /\ key = NoKey
            ELSE IF HasNonHex(arg[1])
            THEN ret = PhraseResult(arg[1], <<>>)
            ELSE ret = Err("HexDecodeError", <<decoded.err>>)

\* A text that is no hex and has a non-hex character was parsed as a phrase
\* and gave a key.
C7_Witness ==
    /\ pc = "idle" /\ fn = "from_str"
    /\ hex_str_to_bytes(arg[1]).tag = "Err"
    /\ HasNonHex(arg[1])
    /\ ret.tag = "Ok"
    /\ Len(steps) = 5

\* The text with one leading 0x removed.
StripPrefix(text) ==
    IF Len(text) >= 2 /\ SubSeq(text, 1, 2) = <<"0", "x">>
    THEN SubSeq(text, 3, Len(text)) ELSE text

\* C8: hex_str_to_bytes succeeds exactly on texts that, after one optional
\* leading 0x, are hexadecimal digits, two per byte, and then returns one byte
\* per pair in order; every other text is a decode error.
C8_HexDecodesExactlyPairs ==
    fn = "hex_str_to_bytes" =>
        LET digits == StripPrefix(arg[1])
        IN  IF Len(digits) % 2 = 0 /\ ~HasNonHex(digits)
            THEN ret = Ok([k \in 1..(Len(digits) \div 2) |->
                            HexVal[digits[2 * k - 1]] * 16 + HexVal[digits[2 * k]]])
            ELSE ret.tag = "Err"

\* C9: the hex text of a KeyLen-byte array, bare or with 0x, parses to the key
\* PrivateKey::from_array builds from it, and hex_str_to_bytes undoes
\* bytes_to_hex_str on every byte string.
C9_HexRoundTrip ==
    /\ (pc = "idle" /\ fn = "from_str") =>
          \A a \in KeyArrays :
             arg[1] \in { bytes_to_hex_str(a), <<"0", "x">> \o bytes_to_hex_str(a) }
                => (ret = Ok(from_array(a)) /\ key = from_array(a))
    /\ fn = "hex_str_to_bytes" =>
          \A b \in ByteStringSamples :
             arg[1] = bytes_to_hex_str(b) => ret = Ok(b)

\* The 0x-prefixed hex text of an array with a byte below 16 was parsed to
\* that array.
C9_Witness ==
    /\ pc = "idle" /\ fn = "from_str"
    /\ \E a \in KeyArrays :
          /\ a[1] = 10
          /\ arg[1] = <<"0", "x">> \o bytes_to_hex_str(a)
          /\ ret = Ok(a)

\* The operations of a PrivateKey that need a valid scalar.
ScalarOps == {"to_public_key", "to_address", "get_signed_tx", "sign_std_msg"}

\* The key the caller holds is zero or not below the curve order.
KeyInvalid == FromBytesBE(key) = 0 \/ FromBytesBE(key) >= CurveN

\* C10: scalar validation is lazy and an error value: from_array and a
\* KeyLen-byte hex parse succeed for every array, zero and values >= the curve
\* order included, and on such a key to_public_key, to_address, get_signed_tx
\* and sign_std_msg each return the curve error.
C10_LazyScalarValidation ==
    /\ fn = "from_array" => (ret = Ok(arg[1]) /\ key = arg[1])
    /\ (pc = "idle" /\ fn = "from_str" /\ hex_str_to_bytes(arg[1]).tag = "Ok"
          /\ Len(hex_str_to_bytes(arg[1]).val) = KeyLen) => ret.tag = "Ok"
    /\ (fn \in ScalarOps /\ KeyInvalid) => ret = Err("CurveError", <<>>)

\* A key at or above the curve order was asked to sign and returned the curve
\* error.
C10_Witness ==
    /\ fn = "sign_std_msg"
    /\ FromBytesBE(key) >= CurveN
    /\ ret = Err("CurveError", <<>>)

----------------------------------------------------------------------------
(* Properties of PublicKey: text forms, labels, relabelling *)

\* C11: a public key built from a point and a label of at most MAX_LEN
\* characters, encoded to checksummed text with its own label, decodes with
\* from_bech32 to a key of the same point and the same label.
C11_PublicKeyTextRoundTrip ==
    (fn = "to_bech32" /\ arg[2] = get_prefix(arg[1])) =>
        (ret.tag = "Ok" /\ from_bech32(ret.val) = Ok(arg[1]))

\* The text passed checksum decoding and 5-bit regrouping.
Regrouped(s) ==
    /\ Bech32Decode(s).tag = "Ok"
    /\ FromBase32(Bech32Decode(s).val.data).tag = "Ok"

\* The payload bytes and the human-readable part of such a text.
PayloadOf(s) == FromBase32(Bech32Decode(s).val.data).val

HrpOf(s) == Bech32Decode(s).val.hrp

\* C12 as stated: on a text that passes checksum decoding and regrouping,
\* from_bech32 returns Bech32WrongLength exactly when the payload is not
\* PayloadLen bytes long, and otherwise the key whose point is the payload
\* after the amino bytes and whose label is the decoded hrp.
C12_WrongLengthElseKey ==
    (fn = "from_bech32" /\ Regrouped(arg[1])) =>
        IF Len(PayloadOf(arg[1])) # PayloadLen
        THEN ret = Err("Bech32WrongLength", <<>>)
        ELSE /\ ret.tag = "Ok"
             /\ ret.val.bytes = SubSeq(PayloadOf(arg[1]), Len(AminoPrefix) + 1, PayloadLen)
             /\ get_prefix(ret.val) = HrpOf(arg[1])

\* C12, amended: as stated, except that a payload of the right length under
\* an hrp longer than MAX_LEN bytes gives the label error and no key; a wrong
\* length is Bech32WrongLength and leaves the caller without a key.
C12_WrongLengthElseKeyOrLabelError ==
    (fn = "from_bech32" /\ Regrouped(arg[1])) =>
        IF Len(PayloadOf(arg[1])) # PayloadLen
        THEN ret = Err("Bech32WrongLength", <<>>) /\ public_key = NoPubKey
        ELSE IF Len(AsBytes(HrpOf(arg[1]))) > MAX_LEN
        THEN ret = Err("PrefixTooLong", <<>>) /\ public_key = NoPubKey
        ELSE /\ ret.tag = "Ok"
             /\ ret.val.bytes = SubSeq(PayloadOf(arg[1]), Len(AminoPrefix) + 1, PayloadLen)
             /\ get_prefix(ret.val) = HrpOf(arg[1])
             /\ public_key = ret.val

\* A text with a valid checksum whose payload is one byte too long was
\* refused as a wrong length.
C12_Witness ==
    /\ fn = "from_bech32"
    /\ Regrouped(arg[1])
    /\ Len(PayloadOf(arg[1])) = PayloadLen + 1
    /\ ret = Err("Bech32WrongLength", <<>>)

\* C13: the PublicKey parser tries checksummed text, hex of PointLen bytes and
\* unpadded base-64 of PointLen bytes in this order, the first that yields a
\* key wins, a decoder that yields none does not stop the chain, and the
\* base-64 decode error is returned only when all three fail.
C13_FirstDecoderWins ==
    fn = "public_key_from_str" =>
        LET s == arg[1]
            hex == hex_str_to_bytes(s)
            b64 == Base64Decode(s)
        IN  IF from_bech32(s).tag = "Ok" THEN ret = from_bech32(s)
            ELSE IF hex.tag = "Ok" /\ Len(hex.val) = PointLen
            THEN ret = PublicKeyFromBytes(hex.val, DEFAULT_PREFIX)
            ELSE IF b64.tag = "Ok" /\ Len(b64.val) = PointLen
            THEN ret = PublicKeyFromBytes(b64.val, DEFAULT_PREFIX)
            ELSE /\ ret.tag = "Err"
                 /\ ret.err = "Base64DecodeError" => b64.tag = "Err"

\* C14: the label of the address PublicKey::to_address derives is the key's
\* label with one trailing "pub" removed when it ends with "pub", and the
\* key's label unchanged otherwise.
C14_OneTrailingPubRemoved ==
    fn = "public_key_to_address" =>
        LET label == get_prefix(arg[1])
            expected == IF EndsWith(label, PubSuffix)
                        THEN SubSeq(label, 1, Len(label) - Len(PubSuffix))
                        ELSE label
        IN  ret.tag = "Ok" /\ ArrayStringDisplay(ret.val.prefix) = expected

\* The label a constructor or change_prefix was called with, when the call
\* got as far as building the label.
LabelArgument ==
    IF fn = "ArrayString::new" THEN <<arg[1]>>
    ELSE IF fn \in {"from_bytes", "change_prefix"} THEN <<arg[2]>>
    ELSE IF fn = "from_slice" /\ Len(arg[1]) = PointLen THEN <<arg[2]>>
    ELSE <<>>

\* The label the call built.
LabelBuilt ==
    IF fn = "ArrayString::new" THEN ret.val
    ELSE IF fn = "change_prefix" THEN public_key.prefix
    ELSE ret.val.prefix

\* C15: building a label succeeds exactly for strings of at most MAX_LEN
\* characters and gives the too-long error for longer ones; a stored label
\* holds at most MAX_LEN characters and renders back to the string it was
\* built from.
C15_LabelLengthInCharacters ==
    LabelArgument # <<>> =>
        IF Len(LabelArgument[1]) <= MAX_LEN
        THEN /\ ret.tag = "Ok"
             /\ LabelBuilt.used <= MAX_LEN
             /\ ArrayStringDisplay(LabelBuilt) = LabelArgument[1]
        ELSE ret.tag = "Err" /\ ret.err \in {"TooLong", "PrefixTooLong"}

\* C16: no PublicKey obtained from the constructors, the parsers and
\* successful change_prefix calls makes Display, Debug or to_address panic.
C16_NoPanicOnAcceptedLabel ==
    fn \in {"fmt", "public_key_to_address"} => ret.tag # "Panic"

\* C20: change_prefix is atomic and touches only the label: a rejected label
\* returns an error and leaves point and label as they were; an accepted one
\* becomes the label and leaves the point, and the address bytes derived from
\* the key, as they were; a label longer than MAX_LEN bytes is rejected.
C20_ChangePrefixAtomic ==
    fn = "change_prefix" =>
        /\ ret.tag \in {"Ok", "Err"}
        /\ Len(AsBytes(arg[2])) > MAX_LEN => ret.tag = "Err"
        /\ ret.tag = "Err" => public_key = arg[1]
        /\ ret.tag = "Ok" =>
              /\ get_prefix(public_key) = arg[2]
              /\ public_key.bytes = arg[1].bytes
              /\ to_address_with_prefix(public_key, <<"c", "o", "s", "m", "o", "s">>).val.bytes
                    = to_address_with_prefix(arg[1], <<"c", "o", "s", "m", "o", "s">>).val.bytes

\* A labelled key was asked to take a label that is too long, and kept its
\* label.
C20_Witness ==
    /\ fn = "change_prefix"
    /\ ret.tag = "Err"
    /\ get_prefix(arg[1]) # <<>>
    /\ get_prefix(public_key) = get_prefix(arg[1])

----------------------------------------------------------------------------
(* Properties of signing *)

\* The key, messages, parameters and memo of a recorded signing input.
SameInput(a, b) == a[2] = b[2] /\ a[3] = b[3] /\ a[4] = b[4] /\ a[5] = b[5]

\* C17: for the same key, messages, parameters and memo, the blob of
\* sign_std_msg is the raw-transaction serialization of the serialized body
\* and auth info of the transaction get_signed_tx returns and of its
\* signature list, and in both the list has one signature of 2 * KeyLen bytes.
C17_SigningFormsAgree ==
    \A a \in DOMAIN signed, b \in DOMAIN signed :
        (a[1] = "sign_std_msg" /\ b[1] = "get_signed_tx" /\ SameInput(a, b)) =>
            /\ signed[a].tag = signed[b].tag
            /\ signed[b].tag = "Ok" =>
                  /\ signed[a].val =
                        ProtoEncode("TxRaw",
                            [body_bytes |-> ProtoEncode("TxBody", signed[b].val.body),
                             auth_info_bytes |->
                                 ProtoEncode("AuthInfo", signed[b].val.auth_info),
                             signatures |-> signed[b].val.signatures])
                  /\ Len(signed[b].val.signatures) = 1
                  /\ Len(signed[b].val.signatures[1]) = 2 * KeyLen
                  /\ Len(signed[a].val[2].signatures) = 1
                  /\ Len(signed[a].val[2].signatures[1]) = 2 * KeyLen

\* A valid key has signed the same input in both forms.
C17_Witness ==
    \E a \in DOMAIN signed, b \in DOMAIN signed :
        /\ a[1] = "sign_std_msg" /\ b[1] = "get_signed_tx" /\ SameInput(a, b)
        /\ signed[a].tag = "Ok" /\ signed[b].tag = "Ok"

----------------------------------------------------------------------------
(* Properties of the child index *)

\* C19: every step of an accepted path has an index below 2^31
\* (HardenedOffset), so that 2^31 + index fits the index type: no call ends in
\* the overflow abort and no accepted step, hardened or not, has an index of
\* HardenedOffset or more.
C19_IndexBelowHardenedOffset ==
    /\ ret # Panic("get_child_key: attempt to add with overflow")
    /\ (HdDone /\ ret.tag = "Ok") =>
          \A k \in 1..Len(steps) : steps[k][1] < HardenedOffset

====
